---- MODULE Spec2Model ----
(***************************************************************************)
(* Model of the Fitbit range fetch of the activity monitor backend:        *)
(*   backend/src/main.py                        analyze_activity           *)
(*   backend/src/api_integrations/fitbit_client.py  FitbitClient           *)
(* One analyze_activity call is followed from the platform dispatch to the *)
(* response handed to the web framework.  Every vendor response, token     *)
(* refresh result and payload is chosen by the environment.                *)
(***************************************************************************)
EXTENDS Integers, Sequences, FiniteSets, TLC

(* ---------------------------------------------------------------- bounds *)
MaxDays == 3
MaxSteps == 1

(* ------------------------------------------------------ program constants *)
\* fitbit_client.py:72  max_retries: int = 2
max_retries == 2

Dates == 1..MaxDays
StepValues == 0..MaxSteps

\* main.py:50  platform: 'fitbit', 'garmin', 'apple', 'manual'
Platforms == {"fitbit", "garmin", "manual", "apple"}

\* HTTP status codes the vendor may answer with: success, a success status
\* other than 200, authentication expired, rate limited, server error.
Statuses == {200, 204, 401, 429, 500}

\* main.py:56-61  the fields of AnalysisResponse
AnalysisResponseFields ==
    {"daily_statistics", "peak_activity", "weekday_patterns", "data_quality", "time_span"}

(* ------------------------------------------------------------ exceptions *)
\* An exception as the orchestrator sees it: its class, the HTTP status it
\* carries (0 when it carries none) and whether str(e) contains one of the
\* texts "429", "Rate limit", "Too Many Requests".
NoError == [kind |-> "none", status |-> 0, mentions429 |-> FALSE]

\* requests.Response.raise_for_status: "<status> Client Error: <reason> for
\* url: <url>".  The text holds the status; the url holds an ISO date.
HTTPError(status) ==
    [kind |-> "HTTPError", status |-> status, mentions429 |-> (status = 429)]

\* Any other exception (connection error, JSON decode error, KeyError): its
\* text is outside the program's control, e.g. "... (char 429)".
OtherError(m) == [kind |-> "Other", status |-> 0, mentions429 |-> m]

\* requests.Response.raise_for_status raises for 4xx and 5xx only.
RaisesForStatus(status) == status >= 400

\* main.py:142  "429" in error_msg or "Rate limit" in error_msg or ...
IsRateLimitMessage(e) == e.mentions429

\* Variant: the last attempt is slept on and retried as well.
ShouldSleepAndRetry_EveryAttempt(a) == a < max_retries

\* fitbit_client.py:96  if attempt < max_retries - 1
ShouldSleepAndRetry(a) == a < max_retries - 1

\* Variants: the partial data is dropped; the rate limit is treated as a
\* skippable failure; the loop is left without raising.
RateLimitBranch_AlwaysRaise(dl) == "raise429"
RateLimitBranch_Skip(dl) == "skip"
RateLimitBranch_AlwaysBreak(dl) == "break"

\* main.py:143-154  what the handler does with a rate-limit message
RateLimitBranch(dl) == IF Len(dl) > 0 THEN "break" ELSE "raise429"

\* main.py:136  if current_date <= end_date: time.sleep(1.0)
PacingDue(next, last) == next <= last

\* Variant: the date is not advanced.
NextDate_Same(d) == d

\* Variant: the loop steps over a date.
NextDate_TwoDays(d) == d + 2

\* main.py:133,156  current_date += timedelta(days=1)
NextDate(d) == d + 1

(* ----------------------------------------------------------- conversion *)
\* fitbit_client.py:254-262  fallback branch of convert_to_activity_format:
\* one Sample at interval 0 holding the summary total (0 without summary).
SummaryFragment(date, data) ==
    << [steps |-> (IF data.has_summary THEN data.steps ELSE 0),
        date |-> date, interval |-> 0] >>

\* Payloads of the daily summary endpoint (no intraday key).
SummaryPayloads ==
    { [has_summary |-> TRUE, steps |-> s] : s \in StepValues }
      \cup { [has_summary |-> FALSE, steps |-> 0] }

(* ------------------------------------------------------- series helpers *)
\* The missing marker of a steps value (pandas NaN, pd.isna).  Step counts
\* are non-negative, so the marker is outside their range.
NaN == 0 - 1
IsNA(x) == x = NaN

RECURSIVE SortedSeq(_)
\* The keys of a groupby, in ascending order (groupby sorts its keys).
SortedSeq(S) ==
    IF S = {} THEN << >>
    ELSE LET m == CHOOSE x \in S : \A y \in S : x <= y
         IN << m >> \o SortedSeq(S \ {m})

RECURSIVE SumSteps(_)
\* Series.sum() of a steps column: missing values are skipped, the sum of
\* nothing is 0.
SumSteps(rows) ==
    IF rows = << >> THEN 0
    ELSE (IF IsNA(Head(rows).steps) THEN 0 ELSE Head(rows).steps) + SumSteps(Tail(rows))

\* Variant: dates whose total is 0 are left out.
calculate_daily_totals_DropZero(data) ==
    LET ds == SortedSeq({ data[i].date : i \in 1..Len(data) })
        all == [i \in 1..Len(ds) |->
                  [date |-> ds[i],
                   steps |-> SumSteps(SelectSeq(data, LAMBDA r : r.date = ds[i]))]]
    IN SelectSeq(all, LAMBDA t : t.steps > 0)

\* Variant: a date's total is the steps of its last Sample.
calculate_daily_totals_LastWins(data) ==
    LET ds == SortedSeq({ data[i].date : i \in 1..Len(data) })
        last(dt) == CHOOSE i \in 1..Len(data) :
                      /\ data[i].date = dt
                      /\ \A j \in 1..Len(data) : data[j].date = dt => j <= i
    IN [i \in 1..Len(ds) |->
          [date |-> ds[i],
           steps |-> IF IsNA(data[last(ds[i])].steps) THEN 0
                     ELSE data[last(ds[i])].steps]]

\* activity_analyzer.py:35-45  groupby('date')['steps'].sum().reset_index()
calculate_daily_totals(data) ==
    LET ds == SortedSeq({ data[i].date : i \in 1..Len(data) })
    IN [i \in 1..Len(ds) |->
          [date |-> ds[i],
           steps |-> SumSteps(SelectSeq(data, LAMBDA r : r.date = ds[i]))]]

(* -------------------------------------------------------------- adapters *)
MaxLen == 2

\* apple_health_client.py:90,126  pd.to_datetime('2024-01-01'), as a day number
AppleZeroFillDate == 1

\* Times of day of raw readings: both ends of the day and both sides of a
\* 5-minute boundary.
TimesOfDay ==
    { [hour |-> 0, minute |-> 0], [hour |-> 0, minute |-> 4],
      [hour |-> 0, minute |-> 5], [hour |-> 23, minute |-> 59] }

\* Sequences over S of length at most n.
SeqUpTo(S, n) == UNION { [1..k -> S] : k \in 0..n }

\* Variant: rounding to the nearest boundary instead of down.
Bucket_Nearest(hour, minute) == (((hour * 60 + minute) + 2) \div 5) * 5

\* fitbit_client.py:235-238, garmin_client.py:144-147,
\* apple_health_client.py:107-110  (hour * 60 + minute) // 5 * 5
Bucket(hour, minute) == ((hour * 60 + minute) \div 5) * 5

\* Rows of one bucket.
RowsOf(rows, date, interval) ==
    SelectSeq(rows, LAMBDA r : r.date = date /\ r.interval = interval)

\* Variant: a later reading of a bucket overwrites the earlier ones.
GroupSum_LastWins(rows) ==
    LET key(r) == r.date * 1440 + r.interval
        ks == SortedSeq({ key(rows[i]) : i \in 1..Len(rows) })
    IN [i \in 1..Len(ks) |->
          LET grp == RowsOf(rows, ks[i] \div 1440, ks[i] % 1440)
              lastv == grp[Len(grp)].steps
          IN [steps |-> (IF IsNA(lastv) THEN 0 ELSE lastv),
              date |-> ks[i] \div 1440, interval |-> ks[i] % 1440]]

\* fitbit_client.py:247, garmin_client.py:160, apple_health_client.py:122
\* groupby(keys)['steps'].sum().reset_index(): one row per key, keys in
\* ascending order, missing values skipped by the sum.
GroupSum(rows) ==
    LET key(r) == r.date * 1440 + r.interval
        ks == SortedSeq({ key(rows[i]) : i \in 1..Len(rows) })
    IN [i \in 1..Len(ks) |->
          [steps |-> SumSteps(RowsOf(rows, ks[i] \div 1440, ks[i] % 1440)),
           date |-> ks[i] \div 1440, interval |-> ks[i] % 1440]]

Returned(series) == [raised |-> FALSE, series |-> series]
Raised == [raised |-> TRUE, series |-> << >>]

\* Raw Fitbit intraday entries: 'time' as "HH:MM" or "HH:MM:SS", 'value'.
FitbitEntries ==
    [fmt : {"HH:MM", "HH:MM:SS"}, time : TimesOfDay, value : StepValues]

\* fitbit_client.py:232-243  the rows built from the dataset.
FitbitRows(date, dataset) ==
    [i \in 1..Len(dataset) |->
        [interval |-> Bucket(dataset[i].time.hour, dataset[i].time.minute),
         steps |-> dataset[i].value, date |-> date]]

\* fitbit_client.py:212-262  FitbitClient.convert_to_activity_format.
\* hour, minute = map(int, time_str.split(':')) raises on a time with
\* seconds; groupby('interval') raises on the frame of an empty dataset.
FitbitConvert(date, data) ==
    IF data.has_intraday
      THEN IF \E i \in 1..Len(data.dataset) : data.dataset[i].fmt # "HH:MM"
             THEN Raised
             ELSE IF data.dataset = << >>
                    THEN Raised
                    ELSE Returned(GroupSum(FitbitRows(date, data.dataset)))
      ELSE Returned(SummaryFragment(date, data))

\* Variant: the intraday request is made whatever the flag says.
IntradayRequests_Always(include_intraday) == 1

\* fitbit_client.py:130-135  requests for the intraday endpoint.
IntradayRequests(include_intraday) == IF include_intraday THEN 1 ELSE 0

\* fitbit_client.py:113-148  get_daily_activity_summary, given the parsed
\* summary payload and the outcome of the intraday request: the payload
\* handed on, or a raise.
FitbitDailyData(include_intraday, summary, intraday) ==
    IF IntradayRequests(include_intraday) > 0
      THEN CASE intraday.kind = "ok" ->
                  [raised |-> FALSE,
                   data |-> [has_intraday |-> TRUE, dataset |-> intraday.dataset,
                             has_summary |-> summary.has_summary, steps |-> summary.steps]]
             [] intraday.kind = "rate_limited" ->
                  [raised |-> FALSE,
                   data |-> [has_intraday |-> FALSE, dataset |-> << >>,
                             has_summary |-> summary.has_summary, steps |-> summary.steps]]
             [] OTHER ->
                  [raised |-> TRUE,
                   data |-> [has_intraday |-> FALSE, dataset |-> << >>,
                             has_summary |-> summary.has_summary, steps |-> summary.steps]]
      ELSE [raised |-> FALSE,
            data |-> [has_intraday |-> FALSE, dataset |-> << >>,
                      has_summary |-> summary.has_summary, steps |-> summary.steps]]

\* Raw Garmin entries: 'timestamp' and 'steps', either of which may be absent
\* (steps NaN stands for an absent key).
GarminEntries ==
    [has_timestamp : {TRUE}, time : TimesOfDay, steps : StepValues \cup {NaN}]
      \cup [has_timestamp : {FALSE}, time : {[hour |-> 0, minute |-> 0]},
            steps : StepValues \cup {NaN}]

\* garmin_client.py:136-154  entries with a timestamp; steps = entry.get('steps', 0)
GarminRows(date, data) ==
    LET kept == SelectSeq(data, LAMBDA e : e.has_timestamp)
    IN [i \in 1..Len(kept) |->
          [interval |-> Bucket(kept[i].time.hour, kept[i].time.minute),
           steps |-> (IF IsNA(kept[i].steps) THEN 0 ELSE kept[i].steps),
           date |-> date]]

\* The zero-valued Sample of a date.
ZeroSample(date) == << [steps |-> 0, date |-> date, interval |-> 0] >>

\* garmin_client.py:123-167  GarminClient.convert_to_activity_format
GarminConvert(date, data) ==
    LET rows == GarminRows(date, data)
    IN IF rows = << >>
         THEN Returned(ZeroSample(date))
         ELSE Returned(GroupSum(rows))

\* Rows of a HealthKit export: record type, startDate, value (NaN: no value).
AppleRows ==
    [is_step : {TRUE}, date : Dates, time : TimesOfDay, value : StepValues \cup {NaN}]
      \cup [is_step : {FALSE}, date : {1}, time : {[hour |-> 0, minute |-> 0]},
            value : {NaN}]

\* Files given to AppleHealthClient: none, an extension other than .csv and
\* .xml, a .csv/.xml path that does not exist, a readable export.
AppleFiles ==
    { [kind |-> k, rows |-> << >>] : k \in {"none", "unsupported", "missing"} }
      \cup { [kind |-> "export", rows |-> r] : r \in SeqUpTo(AppleRows, MaxLen) }

\* apple_health_client.py:19-46  __init__ and load_health_data: health_data
\* stays None without a file or with another extension; read_csv and
\* ET.parse raise on a path that does not exist.
AppleLoad(file) ==
    CASE file.kind \in {"none", "unsupported"} -> [raised |-> FALSE, loaded |-> FALSE, rows |-> << >>]
      [] file.kind = "missing" -> [raised |-> TRUE, loaded |-> FALSE, rows |-> << >>]
      [] OTHER -> [raised |-> FALSE, loaded |-> TRUE, rows |-> file.rows]

\* apple_health_client.py:47-75  get_step_data without date filter
AppleStepData(health) ==
    IF ~health.loaded THEN << >>
    ELSE SelectSeq(health.rows, LAMBDA r : r.is_step)

\* apple_health_client.py:77-128  AppleHealthClient.convert_to_activity_format
AppleConvert(step_data) ==
    IF step_data = << >>
      THEN Returned(ZeroSample(AppleZeroFillDate))
      ELSE Returned(GroupSum(
             [i \in 1..Len(step_data) |->
                [date |-> step_data[i].date,
                 interval |-> Bucket(step_data[i].time.hour, step_data[i].time.minute),
                 steps |-> step_data[i].value]]))

\* The adapter calls under study.
AdapterInputs ==
    [op : {"fitbit"}, date : Dates, include_intraday : BOOLEAN,
     summary : SummaryPayloads,
     intraday : { [kind |-> "ok", dataset |-> ds] : ds \in SeqUpTo(FitbitEntries, MaxLen) }
                  \cup { [kind |-> k, dataset |-> << >>] : k \in {"rate_limited", "error"} }]
      \cup [op : {"garmin"}, date : Dates, data : SeqUpTo(GarminEntries, MaxLen)]
      \cup [op : {"apple"}, date : Dates, file : AppleFiles]

(* -------------------------------------------------------------- analyzer *)
MaxSamples == 3
MaxAnalyzerDays == 2

AnalyzerDates == 1..MaxAnalyzerDays

\* Samples of a series handed to ActivityAnalyzer: steps may be missing.
\* Minutes since midnight of the 5-minute buckets used in analyzer inputs.
AnalyzerIntervals == {0, 5, 10}

AnalyzerSamples ==
    [steps : StepValues \cup {NaN}, date : AnalyzerDates,
     interval : AnalyzerIntervals]

\* A mean as the fraction n/d in lowest terms; 0/0 is not-a-number.
NaNMean == [n |-> 0, d |-> 0]
IsNaNMean(m) == m.d = 0

RECURSIVE Gcd(_, _)
Gcd(a, b) == IF b = 0 THEN a ELSE Gcd(b, a % b)

Fraction(n, d) ==
    IF d = 0 THEN NaNMean
    ELSE IF n = 0 THEN [n |-> 0, d |-> 1]
    ELSE [n |-> n \div Gcd(n, d), d |-> d \div Gcd(n, d)]

\* a > b for two means that are numbers.
MeanGreater(a, b) == a.n * b.d > b.n * a.d

\* Series.mean() of a steps column: missing values are skipped, the mean of
\* nothing is not-a-number.
MeanSteps(rows) ==
    Fraction(SumSteps(rows), Len(SelectSeq(rows, LAMBDA r : ~IsNA(r.steps))))

\* activity_analyzer.py:64-73  groupby('interval')['steps'].mean().reset_index()
calculate_interval_means(data) ==
    LET ks == SortedSeq({ data[i].interval : i \in 1..Len(data) })
    IN [i \in 1..Len(ks) |->
          [interval |-> ks[i],
           steps |-> MeanSteps(SelectSeq(data, LAMBDA r : r.interval = ks[i]))]]

\* Variant: the last position of the largest value.
IdxMax_Last(means) ==
    LET valid == { i \in 1..Len(means) : ~IsNaNMean(means[i].steps) }
    IN IF valid = {} THEN 0
       ELSE CHOOSE i \in valid :
              /\ \A j \in valid : ~MeanGreater(means[j].steps, means[i].steps)
              /\ \A j \in valid :
                    (j > i) => MeanGreater(means[i].steps, means[j].steps)

\* Series.idxmax(): the first position of the largest value, missing values
\* skipped; 0 when there is no value at all (the lookup that follows then
\* raises).
IdxMax(means) ==
    LET valid == { i \in 1..Len(means) : ~IsNaNMean(means[i].steps) }
    IN IF valid = {} THEN 0
       ELSE CHOOSE i \in valid :
              /\ \A j \in valid : ~MeanGreater(means[j].steps, means[i].steps)
              /\ \A j \in valid :
                    (j < i) => MeanGreater(means[i].steps, means[j].steps)

\* activity_analyzer.py:75-88  find_peak_activity_interval
find_peak_activity_interval(data) ==
    LET means == calculate_interval_means(data)
        idx == IdxMax(means)
    IN IF idx = 0
         THEN [raised |-> TRUE, interval |-> 0, steps |-> NaNMean]
         ELSE [raised |-> FALSE, interval |-> means[idx].interval,
               steps |-> means[idx].steps]

\* activity_analyzer.py:102-107  mean_by_interval.get(row['interval'], 0)
MeanByInterval(means, interval) ==
    IF \E i \in 1..Len(means) : means[i].interval = interval
      THEN means[CHOOSE i \in 1..Len(means) : means[i].interval = interval].steps
      ELSE Fraction(0, 1)

\* activity_analyzer.py:90-113  impute_missing_values: a copy of the series
\* whose missing steps are looked up in the interval means.
impute_missing_values(data) ==
    LET means == calculate_interval_means(data)
    IN [i \in 1..Len(data) |->
          [steps |-> (IF IsNA(data[i].steps)
                        THEN MeanByInterval(means, data[i].interval)
                        ELSE Fraction(data[i].steps, 1)),
           date |-> data[i].date, interval |-> data[i].interval]]

\* The same two functions applied to an already imputed series, whose steps
\* are floats (fractions here) and whose missing value is NaNMean.
FracAdd(a, b) == Fraction(a.n * b.d + b.n * a.d, a.d * b.d)

RECURSIVE SumFractions(_)
\* Series.sum() over float steps, missing values skipped.
SumFractions(rows) ==
    IF rows = << >> THEN Fraction(0, 1)
    ELSE IF IsNaNMean(Head(rows).steps) THEN SumFractions(Tail(rows))
    ELSE FracAdd(Head(rows).steps, SumFractions(Tail(rows)))

\* Series.mean() over float steps.
MeanFractions(rows) ==
    LET total == SumFractions(rows)
        count == Len(SelectSeq(rows, LAMBDA r : ~IsNaNMean(r.steps)))
    IN IF count = 0 THEN NaNMean ELSE Fraction(total.n, total.d * count)

\* activity_analyzer.py:64-73 on float steps
calculate_interval_means_float(series) ==
    LET ks == SortedSeq({ series[i].interval : i \in 1..Len(series) })
    IN [i \in 1..Len(ks) |->
          [interval |-> ks[i],
           steps |-> MeanFractions(SelectSeq(series, LAMBDA r : r.interval = ks[i]))]]

\* Variant: every row, missing or not, takes its interval mean.
impute_missing_values_float_AllRows(series) ==
    LET means == calculate_interval_means_float(series)
    IN [i \in 1..Len(series) |->
          [steps |-> MeanByInterval(means, series[i].interval),
           date |-> series[i].date, interval |-> series[i].interval]]

\* activity_analyzer.py:90-113 on float steps
impute_missing_values_float(series) ==
    LET means == calculate_interval_means_float(series)
    IN [i \in 1..Len(series) |->
          [steps |-> (IF IsNaNMean(series[i].steps)
                        THEN MeanByInterval(means, series[i].interval)
                        ELSE series[i].steps),
           date |-> series[i].date, interval |-> series[i].interval]]

\* activity_analyzer.py:147-171  get_missing_data_summary (the counts)
get_missing_data_summary(data) ==
    [total_rows |-> Len(data),
     missing_steps |-> Len(SelectSeq(data, LAMBDA r : IsNA(r.steps)))]

\* activity_analyzer.py:25-33, 173-210  ActivityAnalyzer(data) and
\* generate_summary_report().  A frame without a 'date' column makes the
\* constructor raise; int(peak_interval) is reached only when the peak
\* lookup returned; int() of the day span raises on an empty series.
generate_summary_report(has_columns, data) ==
    LET peak == find_peak_activity_interval(data)
        dates == { data[i].date : i \in 1..Len(data) }
        doesRaise == ~has_columns \/ peak.raised \/ dates = {}
    IN [raised |-> doesRaise,
        daily_totals |-> IF doesRaise THEN << >> ELSE calculate_daily_totals(data),
        peak_interval |-> IF doesRaise THEN 0 ELSE peak.interval,
        peak_steps |-> IF doesRaise THEN NaNMean ELSE peak.steps,
        data_quality |-> get_missing_data_summary(data),
        total_days |-> IF doesRaise THEN 0
                       ELSE (CHOOSE x \in dates : \A y \in dates : x >= y)
                              - (CHOOSE x \in dates : \A y \in dates : x <= y) + 1]

\* The analyzer calls under study.  A frame without columns has no rows.
AnalyzerOps == {"report", "impute", "reimpute", "peak", "totals"}

AnalyzerInputs ==
    [op : AnalyzerOps, has_columns : {TRUE},
     data : SeqUpTo(AnalyzerSamples, MaxSamples)]
      \cup [op : AnalyzerOps, has_columns : {FALSE}, data : {<< >>}]

(* ---------------------------------------------------------------- state *)
VARIABLES
    platform,        \* request.platform
    start_date,      \* request.start_date, as a day number
    end_date,        \* request.end_date, as a day number
    current_date,    \* main.py:116  loop variable
    data_list,       \* main.py:115  fragments appended so far
    request_count,   \* main.py:124
    pc,              \* position of the call
    attempt,         \* fitbit_client.py:85  loop variable
    response,        \* status of the last vendor response (0: none yet)
    err,             \* exception travelling to the per-date handler
    raised,          \* HTTPException raised inside the outer try (status, detail)
    result,          \* what analyze_activity hands to the framework
    reqCount,        \* vendor GET requests issued, per date
    refresh_calls,   \* refresh_access_token calls in the current request call
    sleeps,          \* time.sleep(delay) calls in the current request call
    got429,          \* 429 responses received in the current request call
    outcome,         \* how the per-date unit of work ended, per date
    auth_failed,     \* dates on which a 401 was followed by a failed refresh
    pacing_sleeps,   \* main.py:137  time.sleep(1.0) calls of the fetch loop
    fn_in,           \* input of the adapter or analyzer call under study
    fn_out           \* what that call returned or raised

vars == << platform, start_date, end_date, current_date, data_list,
           request_count, pc, attempt, response, err, raised, result,
           reqCount, refresh_calls, sleeps, got429, outcome, auth_failed,
           pacing_sleeps, fn_in, fn_out >>

\* No adapter or analyzer call is under study.
NoCall == [op |-> "none"]

NoRaise == [status |-> 0, detail |-> "none"]
NoResult == [kind |-> "none", status |-> 0, raised_status |-> 0,
             detail |-> "none", fields |-> {}, series |-> << >>]

\* main.py:85-95  the request as it arrives; nothing has run yet.
Init ==
    /\ platform \in Platforms
    /\ start_date \in Dates
    /\ end_date \in Dates
    /\ current_date = 0
    /\ data_list = << >>
    /\ request_count = 0
    /\ pc = "start"
    /\ attempt = 0
    /\ response = 0
    /\ err = NoError
    /\ raised = NoRaise
    /\ result = NoResult
    /\ reqCount = [d \in Dates |-> 0]
    /\ refresh_calls = 0
    /\ sleeps = 0
    /\ got429 = 0
    /\ outcome = [d \in Dates |-> "none"]
    /\ auth_failed = {}
    /\ pacing_sleeps = 0
    /\ fn_in = NoCall
    /\ fn_out = NoCall

pureVars == << fn_in, fn_out >>
inputVars == << platform, start_date, end_date >>
callVars == << attempt, response, refresh_calls, sleeps, got429 >>
ghostVars == << reqCount, outcome, auth_failed >>

(* ------------------------------------------------------------- dispatch *)
\* main.py:106-124
DispatchFitbit ==
    /\ pc = "start"
    /\ platform = "fitbit"
    /\ data_list' = << >>
    /\ current_date' = start_date
    /\ request_count' = 0
    /\ pc' = "while"
    /\ UNCHANGED pacing_sleeps
    /\ UNCHANGED << inputVars, pureVars, callVars, err, raised, result, ghostVars >>

\* main.py:174-194  get_daily_steps either raises or returns; the frame is
\* then the placeholder row.
DispatchGarmin ==
    /\ pc = "start"
    /\ platform = "garmin"
    /\ \/ /\ raised' = [status |-> 0, detail |-> "other"]
          /\ pc' = "outer_except"
          /\ UNCHANGED data_list
       \/ /\ data_list' = << << [steps |-> 10000, date |-> start_date, interval |-> 0] >> >>
          /\ pc' = "analyze"
          /\ UNCHANGED raised
    /\ UNCHANGED << inputVars, pureVars, current_date, request_count, pacing_sleeps, callVars, err, result, ghostVars >>

\* main.py:196-198
DispatchManual ==
    /\ pc = "start"
    /\ platform = "manual"
    /\ result' = [NoResult EXCEPT !.kind = "dict", !.detail = "manual_not_implemented"]
    /\ pc' = "done"
    /\ UNCHANGED << inputVars, pureVars, current_date, data_list, request_count, pacing_sleeps, callVars,
                    err, raised, ghostVars >>

\* main.py:200-204
DispatchUnsupported ==
    /\ pc = "start"
    /\ platform \notin {"fitbit", "garmin", "manual"}
    /\ raised' = [status |-> 400, detail |-> "unsupported_platform"]
    /\ pc' = "outer_except"
    /\ UNCHANGED << inputVars, pureVars, current_date, data_list, request_count, pacing_sleeps, callVars,
                    err, result, ghostVars >>

(* ------------------------------------------------------- the fetch loop *)
\* main.py:125-129  loop test and entry into get_daily_activity_summary /
\* _make_request_with_retry (fitbit_client.py:85).
WhileTest ==
    /\ pc = "while"
    /\ IF current_date <= end_date
         THEN pc' = "get"
         ELSE pc' = "combine"
    /\ attempt' = 0
    /\ response' = 0
    /\ refresh_calls' = 0
    /\ sleeps' = 0
    /\ got429' = 0
    /\ UNCHANGED << inputVars, pureVars, current_date, data_list, request_count, pacing_sleeps, err,
                    raised, result, ghostVars >>

Count429(s) == IF s = 429 THEN got429 + 1 ELSE got429

\* fitbit_client.py:86-88  requests.get answers with a status.
GetResponse ==
    /\ pc = "get"
    /\ \E s \in Statuses :
         /\ response' = s
         /\ got429' = Count429(s)
         /\ pc' = IF s = 401 THEN "refresh" ELSE "check"
    /\ reqCount' = [reqCount EXCEPT ![current_date] = @ + 1]
    /\ UNCHANGED << inputVars, pureVars, current_date, data_list, request_count, pacing_sleeps, attempt,
                    refresh_calls, sleeps, err, raised, result, outcome, auth_failed >>

\* fitbit_client.py:86  requests.get raises (no connection, timeout).
GetFails ==
    /\ pc = "get"
    /\ \E m \in BOOLEAN : err' = OtherError(m)
    /\ reqCount' = [reqCount EXCEPT ![current_date] = @ + 1]
    /\ outcome' = [outcome EXCEPT ![current_date] = "errOther"]
    /\ pc' = "except"
    /\ UNCHANGED << inputVars, pureVars, current_date, data_list, request_count, pacing_sleeps, callVars,
                    raised, result, auth_failed >>

\* fitbit_client.py:90, 44-70  refresh_access_token returns True.
RefreshSucceeds ==
    /\ pc = "refresh"
    /\ refresh_calls' = refresh_calls + 1
    /\ pc' = "reget"
    /\ UNCHANGED << inputVars, pureVars, current_date, data_list, request_count, pacing_sleeps, attempt,
                    response, sleeps, got429, err, raised, result, ghostVars >>

\* fitbit_client.py:90, 70  refresh_access_token returns False; the 401
\* response stays the current response.
RefreshRefused ==
    /\ pc = "refresh"
    /\ refresh_calls' = refresh_calls + 1
    /\ auth_failed' = auth_failed \cup {current_date}
    /\ pc' = "check"
    /\ UNCHANGED << inputVars, pureVars, current_date, data_list, request_count, pacing_sleeps, attempt,
                    response, sleeps, got429, err, raised, result, reqCount, outcome >>

\* fitbit_client.py:62-67  the token request raises.
RefreshRaises ==
    /\ pc = "refresh"
    /\ refresh_calls' = refresh_calls + 1
    /\ \E m \in BOOLEAN : err' = OtherError(m)
    /\ outcome' = [outcome EXCEPT ![current_date] = "errOther"]
    /\ pc' = "except"
    /\ UNCHANGED << inputVars, pureVars, current_date, data_list, request_count, pacing_sleeps, attempt,
                    response, sleeps, got429, raised, result, reqCount, auth_failed >>

\* fitbit_client.py:91  the one retry after a successful refresh.
RetryResponse ==
    /\ pc = "reget"
    /\ \E s \in Statuses :
         /\ response' = s
         /\ got429' = Count429(s)
    /\ pc' = "check"
    /\ reqCount' = [reqCount EXCEPT ![current_date] = @ + 1]
    /\ UNCHANGED << inputVars, pureVars, current_date, data_list, request_count, pacing_sleeps, attempt,
                    refresh_calls, sleeps, err, raised, result, outcome, auth_failed >>

RetryFails ==
    /\ pc = "reget"
    /\ \E m \in BOOLEAN : err' = OtherError(m)
    /\ reqCount' = [reqCount EXCEPT ![current_date] = @ + 1]
    /\ outcome' = [outcome EXCEPT ![current_date] = "errOther"]
    /\ pc' = "except"
    /\ UNCHANGED << inputVars, pureVars, current_date, data_list, request_count, pacing_sleeps, callVars,
                    raised, result, auth_failed >>

\* How an HTTPError with the given status is recorded for the date.
OutcomeOf(status) ==
    IF status = 429 THEN "err429"
    ELSE IF status = 401 THEN "err401" ELSE "errHTTP"

\* raise_for_status() on the current response raises: the call ends.
RaiseHTTP ==
    /\ err' = HTTPError(response)
    /\ outcome' = [outcome EXCEPT ![current_date] = OutcomeOf(response)]
    /\ pc' = "except"
    /\ UNCHANGED attempt

\* fitbit_client.py:85, 110-111  next iteration of the for loop, or the code
\* after it: raise_for_status(), then return response.
NextAttempt ==
    IF attempt + 1 < max_retries
      THEN /\ attempt' = attempt + 1
           /\ pc' = "get"
           /\ UNCHANGED << err, outcome >>
      ELSE IF RaisesForStatus(response)
             THEN RaiseHTTP
             ELSE /\ pc' = "parse"
                  /\ UNCHANGED << attempt, err, outcome >>

\* fitbit_client.py:93-108  the status checks of one loop iteration.
CheckStatus ==
    /\ pc = "check"
    /\ IF response = 429
         THEN IF ShouldSleepAndRetry(attempt)
                THEN /\ sleeps' = sleeps + 1
                     /\ NextAttempt
                ELSE /\ RaiseHTTP
                     /\ UNCHANGED sleeps
         ELSE IF response = 200
                THEN /\ pc' = "parse"
                     /\ UNCHANGED << attempt, sleeps, err, outcome >>
                ELSE IF response \notin {429, 401} /\ RaisesForStatus(response)
                       THEN /\ RaiseHTTP
                            /\ UNCHANGED sleeps
                       ELSE /\ NextAttempt
                            /\ UNCHANGED sleeps
    /\ UNCHANGED << inputVars, pureVars, current_date, data_list, request_count, pacing_sleeps, response,
                    refresh_calls, got429, raised, result, reqCount, auth_failed >>

\* fitbit_client.py:127-148, main.py:130-137  response.json() gives a
\* payload, it is converted and appended, the date advances.
ParseOk ==
    /\ pc = "parse"
    /\ \E data \in SummaryPayloads :
         data_list' = Append(data_list, SummaryFragment(current_date, data))
    /\ request_count' = request_count + 1
    /\ current_date' = NextDate(current_date)
    /\ pacing_sleeps' = IF PacingDue(NextDate(current_date), end_date)
                           THEN pacing_sleeps + 1 ELSE pacing_sleeps
    /\ outcome' = [outcome EXCEPT ![current_date] = "ok"]
    /\ pc' = "while"
    /\ UNCHANGED << inputVars, pureVars, callVars, err, raised, result, reqCount, auth_failed >>

\* fitbit_client.py:127, 229-247  response.json() or the conversion raises.
ParseFails ==
    /\ pc = "parse"
    /\ \E m \in BOOLEAN : err' = OtherError(m)
    /\ outcome' = [outcome EXCEPT ![current_date] = "errOther"]
    /\ pc' = "except"
    /\ UNCHANGED << inputVars, pureVars, current_date, data_list, request_count, pacing_sleeps, callVars,
                    raised, result, reqCount, auth_failed >>

\* main.py:139-157  the per-date exception handler.
Except ==
    /\ pc = "except"
    /\ IF IsRateLimitMessage(err)
         THEN CASE RateLimitBranch(data_list) = "break" ->
                     /\ pc' = "combine"
                     /\ UNCHANGED << current_date, raised >>
                [] RateLimitBranch(data_list) = "raise429" ->
                     /\ raised' = [status |-> 429, detail |-> "rate_limit_exceeded"]
                     /\ pc' = "outer_except"
                     /\ UNCHANGED current_date
                [] OTHER ->
                     /\ current_date' = NextDate(current_date)
                     /\ pc' = "while"
                     /\ UNCHANGED raised
         ELSE /\ current_date' = NextDate(current_date)
              /\ pc' = "while"
              /\ UNCHANGED raised
    /\ err' = NoError
    /\ UNCHANGED << inputVars, pureVars, data_list, request_count, pacing_sleeps, callVars, result, ghostVars >>

(* ------------------------------------------------ combining and analysis *)
RECURSIVE Concat(_)
\* main.py:165  pd.concat(data_list, ignore_index=True)
Concat(dl) == IF dl = << >> THEN << >> ELSE Head(dl) \o Concat(Tail(dl))

\* main.py:159-172
Combine ==
    /\ pc = "combine"
    /\ IF data_list = << >>
         THEN /\ raised' = [status |-> 404, detail |-> "no_data_found"]
              /\ pc' = "outer_except"
         ELSE IF Concat(data_list) = << >>
                THEN /\ raised' = [status |-> 404, detail |-> "no_data_available"]
                     /\ pc' = "outer_except"
                ELSE /\ pc' = "analyze"
                     /\ UNCHANGED raised
    /\ UNCHANGED << inputVars, pureVars, current_date, data_list, request_count, pacing_sleeps, callVars,
                    err, result, ghostVars >>

\* main.py:206-217
Analyze ==
    /\ pc = "analyze"
    /\ IF Concat(data_list) = << >>
         THEN /\ raised' = [status |-> 404, detail |-> "no_data_available"]
              /\ pc' = "outer_except"
              /\ UNCHANGED result
         ELSE /\ result' = [kind |-> "report", status |-> 200, raised_status |-> 0,
                            detail |-> "none", fields |-> AnalysisResponseFields,
                            series |-> Concat(data_list)]
              /\ pc' = "done"
              /\ UNCHANGED raised
    /\ UNCHANGED << inputVars, pureVars, current_date, data_list, request_count, pacing_sleeps, callVars,
                    err, ghostVars >>

\* main.py:219-220  every exception of the body, HTTPException included
\* (it is an Exception), leaves as HTTPException(500, detail=str(e)).
DeliveredStatus(raisedStatus) == 500

OuterExcept ==
    /\ pc = "outer_except"
    /\ result' = [kind |-> "error", status |-> DeliveredStatus(raised.status),
                  raised_status |-> raised.status, detail |-> raised.detail,
                  fields |-> {"detail"}, series |-> << >>]
    /\ pc' = "done"
    /\ UNCHANGED << inputVars, pureVars, current_date, data_list, request_count, pacing_sleeps, callVars,
                    err, raised, ghostVars >>

Next ==
    \/ DispatchFitbit
    \/ DispatchGarmin
    \/ DispatchManual
    \/ DispatchUnsupported
    \/ WhileTest
    \/ GetResponse
    \/ GetFails
    \/ RefreshSucceeds
    \/ RefreshRefused
    \/ RefreshRaises
    \/ RetryResponse
    \/ RetryFails
    \/ CheckStatus
    \/ ParseOk
    \/ ParseFails
    \/ Except
    \/ Combine
    \/ Analyze
    \/ OuterExcept

Spec == Init /\ [][Next]_vars

\* The call is sequential code: whatever step is enabled is taken.
FairSpec == Spec /\ WF_vars(Next)

(* --------------------------------------------------- adapter calls alone *)
\* The orchestrator is not running.
OrchestratorIdle ==
    /\ platform = "manual"
    /\ start_date = 1
    /\ end_date = 1
    /\ current_date = 0
    /\ data_list = << >>
    /\ request_count = 0
    /\ attempt = 0
    /\ response = 0
    /\ err = NoError
    /\ raised = NoRaise
    /\ result = NoResult
    /\ reqCount = [d \in Dates |-> 0]
    /\ refresh_calls = 0
    /\ sleeps = 0
    /\ got429 = 0
    /\ outcome = [d \in Dates |-> "none"]
    /\ auth_failed = {}
    /\ pacing_sleeps = 0

AdapterInit ==
    /\ OrchestratorIdle
    /\ pc = "adapter"
    /\ fn_in \in AdapterInputs
    /\ fn_out = NoCall

mainVars == << platform, start_date, end_date, current_date, data_list,
               request_count, attempt, response, err, raised, result,
               reqCount, refresh_calls, sleeps, got429, outcome, auth_failed,
               pacing_sleeps >>

\* get_daily_activity_summary(date, include_intraday), then
\* convert_to_activity_format(date, daily_data).
FitbitCall ==
    /\ pc = "adapter"
    /\ fn_in.op = "fitbit"
    /\ LET daily == FitbitDailyData(fn_in.include_intraday, fn_in.summary, fn_in.intraday)
           conv == FitbitConvert(fn_in.date, daily.data)
       IN fn_out' = [op |-> "fitbit",
                     raised |-> (daily.raised \/ conv.raised),
                     series |-> (IF daily.raised THEN << >> ELSE conv.series),
                     intraday_requests |-> IntradayRequests(fn_in.include_intraday),
                     had_intraday |-> (~daily.raised /\ daily.data.has_intraday)]
    /\ pc' = "returned"
    /\ UNCHANGED << mainVars, fn_in >>

\* convert_to_activity_format(date, data) of the Garmin client.
GarminCall ==
    /\ pc = "adapter"
    /\ fn_in.op = "garmin"
    /\ LET conv == GarminConvert(fn_in.date, fn_in.data)
       IN fn_out' = [op |-> "garmin", raised |-> conv.raised, series |-> conv.series,
                     intraday_requests |-> 0, had_intraday |-> FALSE]
    /\ pc' = "returned"
    /\ UNCHANGED << mainVars, fn_in >>

\* AppleHealthClient(file), get_step_data(), convert_to_activity_format().
AppleCall ==
    /\ pc = "adapter"
    /\ fn_in.op = "apple"
    /\ LET health == AppleLoad(fn_in.file)
           conv == AppleConvert(AppleStepData(health))
       IN fn_out' = [op |-> "apple",
                     raised |-> (health.raised \/ conv.raised),
                     series |-> (IF health.raised THEN << >> ELSE conv.series),
                     intraday_requests |-> 0, had_intraday |-> FALSE]
    /\ pc' = "returned"
    /\ UNCHANGED << mainVars, fn_in >>

AdapterNext ==
    \/ FitbitCall
    \/ GarminCall
    \/ AppleCall

AdapterSpec == AdapterInit /\ [][AdapterNext]_vars

(* -------------------------------------------------- analyzer calls alone *)
AnalyzerInit ==
    /\ OrchestratorIdle
    /\ pc = "analyzer"
    /\ fn_in \in AnalyzerInputs
    /\ fn_out = NoCall

\* ActivityAnalyzer(data).generate_summary_report()
ReportCall ==
    /\ pc = "analyzer"
    /\ fn_in.op = "report"
    /\ fn_out' = [op |-> "report",
                  report |-> generate_summary_report(fn_in.has_columns, fn_in.data)]
    /\ pc' = "returned"
    /\ UNCHANGED << mainVars, fn_in >>

\* Whether ActivityAnalyzer(data).impute_missing_values() raises: always
\* for a frame without columns (the constructor), never for a series with
\* Samples; for an empty series the row-wise apply returns a frame whose
\* assignment to one column is accepted by some pandas releases and
\* rejected by others.
ImputeRaises(has_columns, data) ==
    IF ~has_columns THEN {TRUE}
    ELSE IF data = << >> THEN BOOLEAN
    ELSE {FALSE}

\* ActivityAnalyzer(data).impute_missing_values()
ImputeCall ==
    /\ pc = "analyzer"
    /\ fn_in.op = "impute"
    /\ \E r \in ImputeRaises(fn_in.has_columns, fn_in.data) :
          fn_out' = [op |-> "impute",
                     raised |-> r,
                     series |-> IF r THEN << >>
                                ELSE impute_missing_values(fn_in.data)]
    /\ pc' = "returned"
    /\ UNCHANGED << mainVars, fn_in >>

\* ActivityAnalyzer(ActivityAnalyzer(data).impute_missing_values())
\*     .impute_missing_values()
\* Both calls run in the same installation, so an empty series is either
\* accepted by both or rejected by the first.
ReimputeCall ==
    /\ pc = "analyzer"
    /\ fn_in.op = "reimpute"
    /\ \E r \in ImputeRaises(fn_in.has_columns, fn_in.data) :
          fn_out' = [op |-> "reimpute",
                     raised |-> r,
                     once |-> IF r THEN << >>
                              ELSE impute_missing_values(fn_in.data),
                     twice |-> IF r THEN << >>
                               ELSE impute_missing_values_float(
                                      impute_missing_values(fn_in.data))]
    /\ pc' = "returned"
    /\ UNCHANGED << mainVars, fn_in >>

\* ActivityAnalyzer(data).find_peak_activity_interval()
PeakCall ==
    /\ pc = "analyzer"
    /\ fn_in.op = "peak"
    /\ fn_out' = IF fn_in.has_columns
                   THEN [op |-> "peak"] @@ find_peak_activity_interval(fn_in.data)
                   ELSE [op |-> "peak", raised |-> TRUE, interval |-> 0,
                         steps |-> NaNMean]
    /\ pc' = "returned"
    /\ UNCHANGED << mainVars, fn_in >>

\* ActivityAnalyzer(data).calculate_daily_totals()
TotalsCall ==
    /\ pc = "analyzer"
    /\ fn_in.op = "totals"
    /\ fn_out' = [op |-> "totals",
                  raised |-> ~fn_in.has_columns,
                  totals |-> IF fn_in.has_columns
                               THEN calculate_daily_totals(fn_in.data)
                               ELSE << >>]
    /\ pc' = "returned"
    /\ UNCHANGED << mainVars, fn_in >>

AnalyzerNext ==
    \/ ReportCall
    \/ ImputeCall
    \/ ReimputeCall
    \/ PeakCall
    \/ TotalsCall

AnalyzerSpec == AnalyzerInit /\ [][AnalyzerNext]_vars

TypeOK ==
    /\ pc \in {"start", "while", "get", "refresh", "reget", "check", "parse",
               "except", "combine", "analyze", "outer_except", "done",
               "adapter", "analyzer", "returned"}
    /\ attempt \in 0..max_retries
    /\ response \in Statuses \cup {0}


(* ================================================================ claims *)
\* Dates of the Samples of a series, and of the fragments appended so far.
SeriesDates(series) == { series[i].date : i \in 1..Len(series) }
FragmentDates == SeriesDates(Concat(data_list))
RequestedRange == start_date..end_date

\* The first k dates of the range were fetched and date k+1 ended in the
\* HTTP error of a 429 response.
RateLimitedAfter(k) ==
    /\ platform = "fitbit"
    /\ start_date + k <= end_date
    /\ \A d \in start_date..(start_date + k - 1) : outcome[d] = "ok"
    /\ outcome[start_date + k] = "err429"

\* C1: when the first k >= 1 dates of the range are fetched and date k+1
\* ends rate-limited, the call ends without an error in a report computed
\* from the series of exactly the dates 1..k.
C1_PartialResultOnRateLimit ==
    \A k \in 1..MaxDays :
        (pc = "done" /\ RateLimitedAfter(k)) =>
            /\ result.kind = "report"
            /\ result.raised_status = 0
            /\ SeriesDates(result.series) = start_date..(start_date + k - 1)
            /\ Len(result.series) = k

C1_Witness ==
    /\ pc = "done"
    /\ RateLimitedAfter(2)
    /\ end_date = start_date + 2
    /\ result.kind = "report"

\* C2: after a 401 answered by a failed token refresh on date d, no vendor
\* request is issued for any later date, and the call ends in an
\* authentication error, not in a report.
C2_AuthFailureAbortsRange ==
    \A d \in auth_failed :
        /\ \A d2 \in Dates : d2 > d => reqCount[d2] = 0
        /\ pc = "done" => (result.kind = "error" /\ result.raised_status = 401)

\* C3: within one call of _make_request_with_retry the token refresh is
\* invoked at most once.
C3_OneRefreshPerCall == refresh_calls <= 1

\* C4: within one call of _make_request_with_retry a 429 is retried at most
\* once and only after the delay: the call sleeps at most once, a request
\* that follows a 429 follows exactly one sleep, and a 429 received on the
\* retry ends the call in the HTTP error of that 429, never in a parsed
\* response or a further request.
C4_RateLimitRetriedOnce ==
    /\ sleeps <= 1
    /\ got429 <= 2
    /\ (pc \in {"get", "refresh", "reget"} /\ got429 > 0) =>
           (sleeps = 1 /\ got429 = 1 /\ attempt = 1)
    /\ (pc = "parse") => (response # 429)
    /\ (got429 = 2 /\ pc # "check") =>
           (outcome[current_date] = "err429" /\ pc \notin {"get", "refresh", "reget", "parse", "while"})
    /\ (pc = "except" /\ response = 429 /\ err.kind = "HTTPError") => err = HTTPError(429)

C4_Witness ==
    /\ pc = "except"
    /\ got429 = 2
    /\ sleeps = 1
    /\ err = HTTPError(429)

\* A per-date request of the range has ended in the HTTP error of a 429.
EndedRateLimited == \E d \in Dates : outcome[d] = "err429"

\* C5: once a per-date request has ended rate-limited, no further vendor
\* request is issued, for that date or any later one, with or without data
\* from earlier dates.
C5_StopAfterRateLimit ==
    [][EndedRateLimited => (reqCount' = reqCount)]_vars

C5_Witness ==
    /\ pc = "done"
    /\ outcome[start_date] = "ok"
    /\ start_date + 1 < end_date
    /\ outcome[start_date + 1] = "err429"
    /\ reqCount[end_date] = 0

\* The exception in the handler belongs to neither the authentication nor
\* the rate-limit class.
OtherFailure ==
    /\ pc = "except"
    /\ \/ err.kind = "Other"
       \/ err.kind = "HTTPError" /\ err.status \notin {401, 429}

\* C6: a per-date failure that is neither an authentication failure nor a
\* rate limit does not abort the range: the handler advances to the next
\* date, goes on with the loop and keeps the fragments.
C6_SkippableGap ==
    [][OtherFailure =>
          (/\ pc' = "while"
           /\ current_date' = current_date + 1
           /\ data_list' = data_list)]_vars

\* No date produced data.
NoDateProducedData == \A d \in Dates : outcome[d] # "ok"

C8_RaisedStatusDelivered ==
    (pc = "done" /\ result.kind = "error" /\ result.raised_status \in {429, 404, 400}) =>
        result.status = result.raised_status

\* C9: the dates that contributed fragments are a prefix of the requested
\* range.
C9_PrefixOfRange ==
    platform = "fitbit" =>
        \A d \in FragmentDates : \A d2 \in start_date..d : d2 \in FragmentDates

\* A date the handler stepped over after a failure.
Skipped(d) == outcome[d] \in {"err401", "errHTTP", "errOther"}

\* C9 (amended): the dates that contributed fragments are in strictly
\* increasing calendar order, inside the requested range, and every date of
\* the range before the current one either contributed a fragment or was
\* skipped after a failure; the returned series holds the same dates.
C9_OrderedWithSkippedGaps ==
    (platform = "fitbit" /\ pc # "start") =>
        /\ \A i \in 1..Len(data_list) : \A j \in 1..Len(data_list) :
               i < j => data_list[i][1].date < data_list[j][1].date
        /\ FragmentDates \subseteq RequestedRange
        /\ \A d \in FragmentDates : d < current_date
        /\ \A d \in RequestedRange :
               d < current_date => (d \in FragmentDates \/ Skipped(d))
        /\ result.kind = "report" => SeriesDates(result.series) = FragmentDates

C9_Witness ==
    /\ pc = "done"
    /\ result.kind = "report"
    /\ start_date + 2 = end_date
    /\ SeriesDates(result.series) = {start_date, end_date}
    /\ Skipped(start_date + 1)

\* A partial marker that is carried and set.
PartialFlag(res) == "partial" \in res.fields

\* C10: the result carries a partial marker, set exactly when the returned
\* series does not cover every date of the requested range.
C10_PartialFlag ==
    (pc = "done" /\ platform = "fitbit" /\ result.kind = "report") =>
        (PartialFlag(result) <=> (SeriesDates(result.series) # RequestedRange))

\* The rows of the daily totals of the returned series.
ReportTotals == calculate_daily_totals(result.series)
TotalsDates == { ReportTotals[i].date : i \in 1..Len(ReportTotals) }

\* C11: every date of the range that the orchestrator queried has a row in
\* the daily totals of the series handed to the analyzer, with total 0 when
\* no data was obtained for it.
C11_EveryQueriedDateHasRow ==
    (pc = "done" /\ platform = "fitbit" /\ result.kind = "report") =>
        \A d \in RequestedRange :
            reqCount[d] > 0 =>
                \E i \in 1..Len(ReportTotals) :
                    /\ ReportTotals[i].date = d
                    /\ outcome[d] # "ok" => ReportTotals[i].steps = 0

\* C11 (amended): the daily totals have exactly one row for every date
\* whose request produced a payload, in ascending date order, holding that
\* date's fragment total (0 for a payload without a step total), and no row
\* for a date whose request failed or ended rate-limited.
C11_RowForEveryFetchedDate ==
    (pc = "done" /\ platform = "fitbit" /\ result.kind = "report") =>
        /\ TotalsDates = { d \in Dates : outcome[d] = "ok" }
        /\ Len(ReportTotals) = Cardinality(TotalsDates)
        /\ \A i \in 1..Len(ReportTotals) : \A j \in 1..Len(ReportTotals) :
               i < j => ReportTotals[i].date < ReportTotals[j].date
        /\ \A i \in 1..Len(ReportTotals) :
               /\ ReportTotals[i].steps = data_list[i][1].steps
               /\ ReportTotals[i].date = data_list[i][1].date
        /\ \A d \in RequestedRange : outcome[d] # "ok" => d \notin TotalsDates

C11_Witness ==
    /\ pc = "done"
    /\ platform = "fitbit"
    /\ result.kind = "report"
    /\ \E d \in RequestedRange : reqCount[d] > 0 /\ Skipped(d)
    /\ \E i \in 1..Len(ReportTotals) : ReportTotals[i].steps = 0
    /\ \E i \in 1..Len(ReportTotals) : ReportTotals[i].steps > 0

\* A request of the call for the current date is under way.
InDateRequest == pc \in {"get", "refresh", "reget", "check", "parse"}

\* C12: between every two consecutive per-date requests the pacing delay
\* elapses, whether the earlier request succeeded or was skipped, and none
\* is taken after the last date: while the request for a date is under way
\* one delay has been taken for every earlier date of the range.
C12_PacingBetweenRequests ==
    platform = "fitbit" =>
        /\ InDateRequest => pacing_sleeps = current_date - start_date
        /\ pc = "done" /\ start_date <= end_date => pacing_sleeps <= end_date - start_date

(* ------------------------------------------------- claims on the adapters *)
AdapterReturned == pc = "returned" /\ fn_out.op \in {"fitbit", "garmin", "apple"}
Minutes(t) == t.hour * 60 + t.minute

\* The raw step readings the conversion was given, as rows of date, minute
\* of the day and value (NaN: the reading has no value).
RawReadings ==
    CASE fn_in.op = "fitbit" ->
           IF fn_out.had_intraday
             THEN [i \in 1..Len(fn_in.intraday.dataset) |->
                     [date |-> fn_in.date, minute |-> Minutes(fn_in.intraday.dataset[i].time),
                      value |-> fn_in.intraday.dataset[i].value]]
             ELSE << >>
      [] fn_in.op = "garmin" ->
           LET kept == SelectSeq(fn_in.data, LAMBDA e : e.has_timestamp)
           IN [i \in 1..Len(kept) |->
                 [date |-> fn_in.date, minute |-> Minutes(kept[i].time),
                  value |-> kept[i].steps]]
      [] OTHER ->
           LET kept == SelectSeq(fn_in.file.rows, LAMBDA r : r.is_step)
           IN [i \in 1..Len(kept) |->
                 [date |-> kept[i].date, minute |-> Minutes(kept[i].time),
                  value |-> kept[i].value]]

\* The payload holds no raw step reading for the requested date: an empty
\* Fitbit payload or an empty intraday dataset, an empty Garmin reading
\* list, an Apple step table without rows.
NoRawReading ==
    CASE fn_in.op = "fitbit" ->
           /\ ~fn_in.summary.has_summary
           /\ \/ ~fn_in.include_intraday
              \/ fn_in.intraday.kind = "ok" /\ fn_in.intraday.dataset = << >>
      [] fn_in.op = "garmin" -> SelectSeq(fn_in.data, LAMBDA e : e.has_timestamp) = << >>
      [] OTHER ->
           /\ fn_in.file.kind \in {"none", "unsupported", "export"}
           /\ SelectSeq(fn_in.file.rows, LAMBDA r : r.is_step) = << >>

\* C13: for each adapter, converting a payload without any raw step reading
\* for the requested date d raises nothing and yields exactly one Sample,
\* with date d, interval 0 and steps 0.
C13_ZeroFill ==
    (AdapterReturned /\ NoRawReading) =>
        /\ ~fn_out.raised
        /\ fn_out.series = << [steps |-> 0, date |-> fn_in.date, interval |-> 0] >>

RECURSIVE SumOfBucket(_, _, _)
\* The sum of the values of the raw readings of one date that fall into the
\* 5 minutes starting at interval (a reading without value adds nothing).
SumOfBucket(raw, date, interval) ==
    IF raw = << >> THEN 0
    ELSE LET r == Head(raw)
             inBucket == /\ r.date = date
                         /\ interval <= r.minute
                         /\ r.minute < interval + 5
         IN (IF inBucket /\ ~IsNA(r.value) THEN r.value ELSE 0)
              + SumOfBucket(Tail(raw), date, interval)

\* No (date, interval) pair occurs twice in the series.
OneSamplePerBucket(series) ==
    \A i \in 1..Len(series) : \A j \in 1..Len(series) :
        (series[i].date = series[j].date /\ series[i].interval = series[j].interval)
            => i = j

\* C15: in every adapter fragment, and in the series the orchestrator
\* concatenates from the per-date fragments, each (date, interval) pair
\* occurs once, and the steps of an aggregated Sample are the sum of all raw
\* readings of its bucket.
C15_OneSamplePerBucketBySum ==
    /\ (AdapterReturned /\ ~fn_out.raised) =>
           /\ OneSamplePerBucket(fn_out.series)
           /\ RawReadings # << >> =>
                  \A i \in 1..Len(fn_out.series) :
                      fn_out.series[i].steps =
                          SumOfBucket(RawReadings, fn_out.series[i].date,
                                      fn_out.series[i].interval)
    /\ platform = "fitbit" =>
           /\ OneSamplePerBucket(Concat(data_list))
           /\ OneSamplePerBucket(result.series)

C15_Witness ==
    /\ AdapterReturned
    /\ ~fn_out.raised
    /\ Len(RawReadings) = 2
    /\ RawReadings[1].minute = 0
    /\ RawReadings[2].minute = 4
    /\ RawReadings[1].value = 1
    /\ RawReadings[2].value = 1
    /\ Len(fn_out.series) = 1
    /\ fn_out.series[1].steps = 2

\* C16: a raw reading without a step value (a Garmin entry without steps, an
\* Apple row without value, a Fitbit payload without summary total) is the
\* missing marker in the series, never 0, and no Sample is negative.
C16_MissingIsNotZero ==
    (AdapterReturned /\ ~fn_out.raised) =>
        /\ \A i \in 1..Len(fn_out.series) :
             IsNA(fn_out.series[i].steps) \/ fn_out.series[i].steps >= 0
        /\ \A k \in 1..Len(RawReadings) :
             IsNA(RawReadings[k].value) =>
                 \A i \in 1..Len(fn_out.series) :
                     (/\ fn_out.series[i].date = RawReadings[k].date
                      /\ fn_out.series[i].interval <= RawReadings[k].minute
                      /\ RawReadings[k].minute < fn_out.series[i].interval + 5)
                         => fn_out.series[i].steps # 0
        /\ (fn_in.op = "fitbit" /\ ~fn_out.had_intraday /\ ~fn_in.summary.has_summary) =>
               \A i \in 1..Len(fn_out.series) : IsNA(fn_out.series[i].steps)

\* C17: with intraday data disabled the Fitbit adapter makes no intraday
\* request, and with intraday data disabled or absent from the payload the
\* date's fragment is exactly one Sample at interval 0 holding the summary
\* total of that date.
C17_SummaryOnlyFallback ==
    (AdapterReturned /\ fn_in.op = "fitbit") =>
        /\ ~fn_in.include_intraday =>
               (fn_out.intraday_requests = 0 /\ ~fn_out.raised /\ ~fn_out.had_intraday)
        /\ (~fn_out.raised /\ ~fn_out.had_intraday) =>
               /\ Len(fn_out.series) = 1
               /\ fn_out.series[1].interval = 0
               /\ fn_out.series[1].date = fn_in.date
               /\ fn_out.series[1].steps =
                      (IF fn_in.summary.has_summary THEN fn_in.summary.steps ELSE 0)

C17_Witness ==
    /\ AdapterReturned
    /\ fn_in.op = "fitbit"
    /\ ~fn_in.include_intraday
    /\ fn_in.intraday.kind = "ok"
    /\ Len(fn_in.intraday.dataset) = 2
    /\ fn_in.summary.has_summary
    /\ fn_in.summary.steps = 1
    /\ fn_out.series = << [steps |-> 1, date |-> fn_in.date, interval |-> 0] >>

\* C18: an AppleHealthClient given no file, a file of another format or a
\* missing file raises nothing, and the series obtained from it is empty.
C18_BadFileGivesEmptySeries ==
    (AdapterReturned /\ fn_in.op = "apple"
       /\ fn_in.file.kind \in {"none", "unsupported", "missing"}) =>
        /\ ~fn_out.raised
        /\ fn_out.series = << >>

(* ------------------------------------------------- claims on the analyzer *)
ReportReturned == pc = "returned" /\ fn_out.op = "report"
ImputeReturned == pc = "returned" /\ fn_out.op = "impute"

\* Degenerate input: an empty series, a single Sample, all steps missing.
Degenerate(data) ==
    \/ Len(data) <= 1
    \/ \A i \in 1..Len(data) : IsNA(data[i].steps)

\* C19: for an empty series, a single-Sample series and a series whose
\* steps are all missing, constructing the analyzer and generating the
\* summary report completes without raising.
C19_NeverRaisesOnDegenerateInput ==
    (ReportReturned /\ Degenerate(fn_in.data)) => ~fn_out.report.raised

\* The non-missing Samples of the interval of Sample i.
SameIntervalValues(data, i) ==
    SelectSeq(data, LAMBDA r : r.interval = data[i].interval /\ ~IsNA(r.steps))

\* C20: imputation keeps the Samples (date, interval) and every non-missing
\* steps value, replaces a missing steps value by the mean of the
\* non-missing steps of its interval over the whole series, by 0 when that
\* interval has none, and leaves no missing value.
C20_ImputationRule ==
    (ImputeReturned /\ ~fn_out.raised) =>
        /\ Len(fn_out.series) = Len(fn_in.data)
        /\ \A i \in 1..Len(fn_in.data) :
             LET before == fn_in.data[i]
                 after == fn_out.series[i]
                 others == SameIntervalValues(fn_in.data, i)
             IN /\ after.date = before.date
                /\ after.interval = before.interval
                /\ ~IsNaNMean(after.steps)
                /\ ~IsNA(before.steps) =>
                       (after.steps.n = before.steps /\ after.steps.d = 1)
                /\ (IsNA(before.steps) /\ others # << >>) =>
                       after.steps.n * Len(others) = SumSteps(others) * after.steps.d
                /\ (IsNA(before.steps) /\ others = << >>) =>
                       (after.steps.n = 0 /\ after.steps.d = 1)

ReimputeReturned == pc = "returned" /\ fn_out.op = "reimpute" /\ ~fn_out.raised

\* C21: imputing an imputed series again gives the imputed series, Sample
\* by Sample (a steps value still missing after the first imputation is
\* missing after the second).
C21_ImputationIdempotent ==
    ReimputeReturned =>
        /\ Len(fn_out.twice) = Len(fn_out.once)
        /\ \A i \in 1..Len(fn_out.once) : fn_out.twice[i] = fn_out.once[i]

\* The first imputation replaced a missing value by a mean that is not a
\* whole number, next to a non-missing Sample of another value.
C21_Witness ==
    /\ ReimputeReturned
    /\ \E i \in 1..Len(fn_in.data) :
          /\ IsNA(fn_in.data[i].steps)
          /\ fn_out.once[i].steps.d > 1
          /\ fn_out.twice[i] = fn_out.once[i]

\* The float form of the imputation agrees with the integer form on a raw
\* series.
ToFloat(data) ==
    [i \in 1..Len(data) |->
       [steps |-> IF IsNA(data[i].steps) THEN NaNMean
                  ELSE Fraction(data[i].steps, 1),
        date |-> data[i].date, interval |-> data[i].interval]]

ImputeFormsAgree ==
    (pc = "returned" /\ fn_out.op = "impute" /\ ~fn_out.raised) =>
        fn_out.series = impute_missing_values_float(ToFloat(fn_in.data))

PeakReturned == pc = "returned" /\ fn_out.op = "peak"

\* The non-missing Samples of interval k.
IntervalValues(data, k) ==
    SelectSeq(data, LAMBDA r : r.interval = k /\ ~IsNA(r.steps))

\* Interval p has the largest cross-day mean of the series, and every lower
\* interval has a smaller one.
LowestIntervalOfMaximum(data, p) ==
    LET cnt(k) == Len(IntervalValues(data, k))
        sum(k) == SumSteps(IntervalValues(data, k))
        ks == { k \in AnalyzerIntervals : cnt(k) > 0 }
    IN /\ p \in ks
       /\ \A k \in ks : sum(k) * cnt(p) <= sum(p) * cnt(k)
       /\ \A k \in ks : (k < p) => sum(k) * cnt(p) < sum(p) * cnt(k)

\* C22: for every non-empty series find_peak_activity_interval returns the
\* interval with the maximum cross-day mean, the lowest such interval when
\* several share the maximum.
C22_PeakLowestOnTie ==
    (PeakReturned /\ fn_in.data # << >>) =>
        /\ ~fn_out.raised
        /\ LowestIntervalOfMaximum(fn_in.data, fn_out.interval)

\* The same for the series that have a non-missing steps value.
C22_PeakOfObservedSeries ==
    (PeakReturned /\ \E i \in 1..Len(fn_in.data) : ~IsNA(fn_in.data[i].steps)) =>
        /\ ~fn_out.raised
        /\ LowestIntervalOfMaximum(fn_in.data, fn_out.interval)

\* A tie between two intervals above a smaller first interval.
C22_TieReached ==
    /\ PeakReturned
    /\ ~fn_out.raised
    /\ fn_out.interval = 5
    /\ SumSteps(IntervalValues(fn_in.data, 0)) = 0
    /\ Len(IntervalValues(fn_in.data, 0)) > 0
    /\ SumSteps(IntervalValues(fn_in.data, 10)) > 0
    /\ Len(IntervalValues(fn_in.data, 10)) > 0

TotalsReturned == pc = "returned" /\ fn_out.op = "totals" /\ ~fn_out.raised

\* The steps of the Samples observed with value v, counted over positions I.
StepsObserved(data, I) ==
    LET count(v) == Cardinality({ i \in I : data[i].steps = v })
        weighted == [v \in StepValues |-> v * count(v)]
        vs == SortedSeq(StepValues)
        partial[n \in 0..Len(vs)] ==
            IF n = 0 THEN 0 ELSE partial[n - 1] + weighted[vs[n]]
    IN partial[Len(vs)]

\* The sum of the steps column of the daily totals, row by row.
TotalOfRows(totals) ==
    LET partial[n \in 0..Len(totals)] ==
            IF n = 0 THEN 0 ELSE partial[n - 1] + totals[n].steps
    IN partial[Len(totals)]

\* C23: the daily totals sum to the steps of all non-missing Samples, and
\* the row of each date holds the sum of that date's non-missing Samples.
C23_DailyTotalsConserveSteps ==
    TotalsReturned =>
        /\ TotalOfRows(fn_out.totals)
             = StepsObserved(fn_in.data, DOMAIN fn_in.data)
        /\ \A i \in 1..Len(fn_in.data) :
              \E t \in 1..Len(fn_out.totals) :
                  fn_out.totals[t].date = fn_in.data[i].date
        /\ \A t \in 1..Len(fn_out.totals) :
              fn_out.totals[t].steps
                = StepsObserved(fn_in.data,
                    { i \in DOMAIN fn_in.data :
                        fn_in.data[i].date = fn_out.totals[t].date })

\* Two dates with different totals, one of them holding a missing Sample
\* next to a counted one.
C23_Witness ==
    /\ TotalsReturned
    /\ Len(fn_out.totals) = 2
    /\ fn_out.totals[1].steps # fn_out.totals[2].steps
    /\ \E i, j \in 1..Len(fn_in.data) :
          /\ fn_in.data[i].date = fn_in.data[j].date
          /\ IsNA(fn_in.data[i].steps)
          /\ ~IsNA(fn_in.data[j].steps) /\ fn_in.data[j].steps > 0

(* ------------------------------------------------------------ termination *)
\* Ranges of at most MaxRangeDays days, every step taken when one is
\* enabled: the call is sequential code that waits only for bounded sleeps
\* and for the vendor's answer.
MaxRangeDays == 2

TerminationInit ==
    /\ Init
    /\ start_date <= MaxRangeDays
    /\ end_date <= MaxRangeDays

TerminationSpec == TerminationInit /\ [][Next]_vars /\ WF_vars(Next)

\* The fetch loop of analyze_activity is running (main.py:125-157).
InFetchLoop ==
    pc \in {"while", "get", "refresh", "reget", "check", "parse", "except"}

\* An iteration ends by going back to the loop test.
IterationEnds == pc \in {"parse", "except"} /\ pc' = "while"

\* C24: under any vendor responses the fetch loop ends; an iteration that
\* returns to the loop test has advanced the current date by one day, and
\* at the loop test every date requested so far is earlier than the current
\* date, so dates are requested in increasing order and none twice.
C24_FetchLoopTerminates ==
    /\ InFetchLoop ~> ~InFetchLoop
    /\ <>(pc = "done")
    /\ [][IterationEnds => current_date' = current_date + 1]_vars
    /\ [](pc = "while" =>
              \A dt \in Dates : reqCount[dt] > 0 => dt < current_date)

\* The loop ran over the whole range with a skipped date and ended.
C24_Witness ==
    /\ pc = "combine"
    /\ start_date = 1
    /\ end_date = MaxRangeDays
    /\ current_date = end_date + 1
    /\ \A dt \in start_date..end_date : reqCount[dt] > 0
    /\ \E dt \in Dates : outcome[dt] = "errOther"
    /\ \E dt \in Dates : outcome[dt] = "ok"

(* ------------------------------------------------------- normal return *)
\* _make_request_with_retry has returned its response to
\* get_daily_activity_summary, which parses it (fitbit_client.py:126-127).
ReturnedResponse == pc = "parse"

\* The call ends with this step: no further attempt follows.
CallEnds == pc = "check" /\ pc' # "get"

\* C25: a response returned by _make_request_with_retry has status 200, and
\* a call whose final response has another status ends in a raised HTTP
\* error of that status.
C25_NormalReturnMeans200 ==
    /\ [](ReturnedResponse => response = 200)
    /\ [][(CallEnds /\ response # 200) =>
             (pc' = "except" /\ err' = HTTPError(response))]_vars

\* What holds instead: a returned response has no error status, and a final
\* response with an error status raises.
ReturnedWithoutErrorStatus ==
    /\ [](ReturnedResponse => ~RaisesForStatus(response))
    /\ [][(CallEnds /\ RaisesForStatus(response)) =>
             (pc' = "except" /\ err' = HTTPError(response))]_vars

\* The orchestrator and the adapter calls as one system.
SystemInit == Init \/ AdapterInit
SystemNext == Next \/ AdapterNext
SystemSpec == SystemInit /\ [][SystemNext]_vars

====
